---- MODULE Spec2Model ----
(***************************************************************************)
(* Model of the live query tree of package qtree (src/qtree/qtree.go):     *)
(* QueryTreeNode, NewQueryTree, ApplyTreeMutation, AddChild, removeChild,  *)
(* Dispose and the per-node subscriber registry.                           *)
(*                                                                         *)
(* Node objects are Go pointers; here they are handles 1..Len(nodes), the  *)
(* root being handle 1 and NIL the nil pointer.  A node object is never    *)
(* reused: a disposed or rolled-back node keeps its handle, because other  *)
(* objects (its children, the index) may still point at it.                *)
(*                                                                         *)
(* ApplyTreeMutation is run by a single writer as a sequence of steps:     *)
(* BeginBatch (the Put loop), one step per node operation of the batch     *)
(* (the whole AddChild or Dispose call, recursion included) and EndBatch   *)
(* (GarbageCollect).  The operations of the batch are chosen as the loop   *)
(* reaches them, so a batch is any finite sequence of operations.          *)
(*                                                                         *)
(* The specifications share the actions.  Spec is the writer with the      *)
(* Variable Store and argument bindings; SpecObs is the writer together    *)
(* with observers that subscribe and unsubscribe between its steps, on     *)
(* batches that bind no argument.  The writer never touches a registry     *)
(* except to read it in nextUpdate, and observers touch nothing else.      *)
(* SpecArgs is the writer on a small tree with argument lists of several   *)
(* bindings; SpecDispose adds a caller that disposes a node a second time; *)
(* SpecLocks takes the calls on the subscriber registries step by step,    *)
(* with their Lock and Unlock, for the writer and the observer threads.    *)
(***************************************************************************)
EXTENDS Integers, Sequences, FiniteSets, TLC

\* ------------------------------------------------------------------ bounds
MaxId == 2
MaxObj == 3
MaxVar == 1
MaxSubs == 1
MaxArgs == 3
MaxRefs == 2
MaxFlat == 2
MaxObservers == 2
MaxIssue == 2
MaxLockObj == 1

NIL == 0
RootObj == 1

NodeIds == 0..MaxId
VarIds == 1..MaxVar
ArgNames == {"a"}

\* ------------------------------------------------------------------ schema
\* A declared type: the named type and its wrappers, outermost first.
Named(n) == [wrap |-> <<>>, name |-> n]
NonNull(t) == [wrap |-> <<"NonNull">> \o t.wrap, name |-> t.name]
ListOf(t) == [wrap |-> <<"List">> \o t.wrap, name |-> t.name]

NoField == [name |-> "", type |-> Named("")]

\* The object definitions known to the schema resolver, with their fields in
\* declaration order.  "ghost" is declared on Query with a type the resolver
\* does not know, and is not declared on User.  The declared types are
\* User, Int!, [User!] and [Int]!.
ObjectDefs ==
  [Query |-> << [name |-> "user", type |-> Named("User")],
                [name |-> "count", type |-> NonNull(Named("Int"))],
                [name |-> "ghost", type |-> Named("Ghost")] >>,
   User |-> << [name |-> "user", type |-> ListOf(NonNull(Named("User")))],
               [name |-> "count", type |-> NonNull(ListOf(Named("Int")))] >>]

FieldNames == {"user", "count", "ghost"}

PrimitiveNames == {"Int", "Float", "String", "Boolean", "ID"}

IsPrimitive(name) == name \in PrimitiveNames

\* SchemaResolver.LookupType: the definition of a named type, "nil" when the
\* reference does not resolve.
LookupType(t) ==
  IF t.wrap = <<>> /\ t.name \in DOMAIN ObjectDefs THEN t.name ELSE "nil"

\* ------------------------------------------------------------- descriptors
\* proto.RGQLQueryTreeNode: Id, FieldName, Args (name, variable id) and
\* nested Children.  DescsN(n, argLists) is the set of descriptors of at most
\* n nodes whose argument lists are taken from argLists.
ArgLists == {<<>>} \cup {<<[Name |-> a, VariableId |-> v]>> : a \in ArgNames, v \in VarIds}

\* The argument lists of up to MaxArgs bindings.  A binding may name a variable
\* no batch ever carries (id 0), and two bindings may carry the same name.
ArgVarIds == 0..MaxVar
ArgSeqs == UNION { [1..n -> [Name : ArgNames, VariableId : ArgVarIds]] : n \in 0..MaxArgs }

RECURSIVE DescsN(_, _), Forests(_, _)
DescsN(n, argLists) ==
  IF n <= 0 THEN {}
  ELSE { [Id |-> i, FieldName |-> f, Args |-> a, Children |-> c] :
           i \in NodeIds, f \in FieldNames, a \in argLists, c \in Forests(n - 1, argLists) }
Forests(n, argLists) ==
  {<<>>} \cup UNION { { <<d>> \o r : d \in DescsN(k, argLists), r \in Forests(n - k, argLists) } :
                       k \in 1..n }

RECURSIVE DescSize(_), ForestSize(_)
DescSize(d) == 1 + ForestSize(d.Children)
ForestSize(c) == IF c = <<>> THEN 0 ELSE DescSize(Head(c)) + ForestSize(Tail(c))


\* ------------------------------------------------------------------- state
VARIABLES
  nodes,        \* the QueryTreeNode objects minted so far, by handle
  RootNodeMap,  \* the root's RootNodeMap: node id -> handle
  store,        \* VariableStore: the ids of the variables it holds
  refs,         \* VariableStore: outstanding references per variable id
  subscribers,  \* per handle: the registered subscription ids
  subCtr,       \* per handle: the next subscription id
  phase,        \* position of the writer in ApplyTreeMutation
  events,       \* the updates published by the writer's latest step, in order
  last,         \* what the writer's latest step was
  disposed,     \* the nodes on which a Dispose call has returned
  pub,          \* how many of the updates in events the writer has delivered
  subscribersMtx, \* per handle: the threads inside the lock of the registry
  pc,           \* per thread: its position in the call it is making
  loc,          \* per observer thread: the node and the subscription id of its call
  issued,       \* per handle: the ids SubscribeChanges has returned, in order
  removed,      \* per handle: the ids whose removeSubscription has returned
  delivery      \* the writer's nextUpdate call in progress or last made

\* The state of the threads and locks, and what the calls have returned.
lockVars == <<subscribersMtx, pc, loc, issued, removed, delivery>>

vars == <<nodes, RootNodeMap, store, refs, subscribers, subCtr, phase, events, last,
          disposed, pub, lockVars>>

Handles == 1..Len(nodes)

\* The Go zero value of Arguments (a nil map) after Dispose.
NilArgs == [x \in {} |-> 0]

NewNode(id, parent, field, astName, prim, primName, args) ==
  [Id |-> id, Parent |-> parent, Children |-> <<>>, FieldName |-> field,
   AST |-> astName, IsPrimitive |-> prim, PrimitiveName |-> primName,
   Arguments |-> args]

\* The working state of one writer step, threaded through the calls.
\* unindexed holds the nodes whose Dispose has passed its delete from the
\* root's RootNodeMap.
WState == [nodes |-> nodes, map |-> RootNodeMap, refs |-> refs,
           events |-> <<>>, panic |-> FALSE, err |-> "", nnod |-> NIL,
           unindexed |-> {}, disposed |-> disposed]

\* qt.RootNodeMap as seen from node qt: only the root's field is ever set
\* (NewQueryTree); AddChild leaves it nil on every node it mints.
NodeMapOf(st, qt) == IF qt = RootObj THEN st.map ELSE [x \in {} |-> NIL]

MapPut(m, id, h) == [i \in (DOMAIN m) \cup {id} |-> IF i = id THEN h ELSE m[i]]
MapDelete(m, id) == [i \in (DOMAIN m) \ {id} |-> m[i]]

\* The Variable Store, by its contract: Put installs a binding, Get hands out
\* a counted reference to a binding it holds (nil otherwise), Unsubscribe
\* gives one reference back, GarbageCollect drops the bindings that have no
\* outstanding reference.
Put(s, variables) == s \cup variables
Holds(s, v) == v \in s
Acquire(r, v) == [r EXCEPT ![v] = @ + 1]
Release(r, v) == [r EXCEPT ![v] = @ - 1]
GarbageCollect(s, r) == {v \in s : r[v] > 0}

RECURSIVE ReleaseAll(_, _, _)
ReleaseAll(r, argMap, names) ==
  IF names = {} THEN r
  ELSE LET n == CHOOSE x \in names : TRUE
       IN ReleaseAll(Release(r, argMap[n]), argMap, names \ {n})

\* nextUpdate: the update is handed to every subscriber registered on qt.
\* The update is logged with the nodes already taken out of the index by the
\* Dispose calls of the step when it is published.
nextUpdate(st, qt, op, child) ==
  [st EXCEPT !.events = Append(@, [node |-> qt, op |-> op, child |-> child,
                                   subs |-> subscribers[qt],
                                   unindexed |-> st.unindexed])]

RemoveAt(s, i) == SubSeq(s, 1, i - 1) \o SubSeq(s, i + 1, Len(s))

IndexOf(s, x) ==
  IF \E i \in 1..Len(s) : s[i] = x
  THEN CHOOSE i \in 1..Len(s) : s[i] = x /\ \A j \in 1..(i - 1) : s[j] # x
  ELSE 0

\* removeChild as it would be if the update went to the root's subscribers.
removeChildNotifyRoot(st, qt, nod) ==
  LET i == IndexOf(st.nodes[qt].Children, nod)
  IN IF i = 0 THEN st
     ELSE nextUpdate([st EXCEPT !.nodes[qt].Children = RemoveAt(@, i)],
                     RootObj, "DelChild", nod)

removeChild(st, qt, nod) ==
  LET i == IndexOf(st.nodes[qt].Children, nod)
  IN IF i = 0 THEN st
     ELSE nextUpdate([st EXCEPT !.nodes[qt].Children = RemoveAt(@, i)],
                     qt, "DelChild", nod)

\* ---------------------------------------------------------------- AddChild
Fail(st, e) == [st EXCEPT !.err = e, !.nnod = NIL]

\* The first field of the object definition with the given name.
SelectField(fields, fname) ==
  IF \E i \in 1..Len(fields) : fields[i].name = fname
  THEN fields[CHOOSE i \in 1..Len(fields) :
                /\ fields[i].name = fname
                /\ \A j \in 1..(i - 1) : fields[j].name # fname]
  ELSE NoField

\* One list wrapper is taken off, then one non-null wrapper.
UnwrapList(t) ==
  IF t.wrap # <<>> /\ Head(t.wrap) = "List" THEN [t EXCEPT !.wrap = Tail(@)] ELSE t
UnwrapNonNull(t) ==
  IF t.wrap # <<>> /\ Head(t.wrap) = "NonNull" THEN [t EXCEPT !.wrap = Tail(@)] ELSE t
Unwrap(t) == UnwrapNonNull(UnwrapList(t))

\* The argument loop: Get a reference for each binding in turn; on a variable
\* the store does not hold, Unsubscribe what argMap holds and fail.
RECURSIVE AcquireArgs(_, _, _)
AcquireArgs(r, args, argMap) ==
  IF args = <<>> THEN [refs |-> r, argMap |-> argMap, ok |-> TRUE]
  ELSE LET arg == Head(args)
       IN IF ~Holds(store, arg.VariableId)
          THEN [refs |-> ReleaseAll(r, argMap, DOMAIN argMap), argMap |-> argMap, ok |-> FALSE]
          ELSE AcquireArgs(Acquire(r, arg.VariableId), Tail(args),
                           MapPut(argMap, arg.Name, arg.VariableId))

\* The selectability check as it would be if it were left out.
IsObjectDefinitionUnchecked(astName) == TRUE

\* qt.AST.(*ast.ObjectDefinition): only an object definition is selectable;
\* the nil AST of a primitive node is not.
IsObjectDefinition(astName) == astName \in DOMAIN ObjectDefs

FieldsOf(astName) == IF astName \in DOMAIN ObjectDefs THEN ObjectDefs[astName] ELSE <<>>

\* The deferred cleanup of a failed AddChild: the new node is taken out of
\* qt.Children and its id out of the root's RootNodeMap.
Rollback(st, qt, nnod, id) ==
  [removeChild(st, qt, nnod) EXCEPT !.map = MapDelete(@, id), !.nnod = nnod]

\* The closing nextUpdate as it would be if called on the new node.
AnnounceOnChild(st, qt, nnod) ==
  [nextUpdate(st, nnod, "AddChild", nnod) EXCEPT !.nnod = nnod]

\* The closing nextUpdate of a successful AddChild.
Announce(st, qt, nnod) ==
  [nextUpdate(st, qt, "AddChild", nnod) EXCEPT !.nnod = nnod]

RECURSIVE AddChild(_, _, _), AddChildren(_, _, _)
AddChild(st, qt, data) ==
  IF data.Id \in DOMAIN NodeMapOf(st, qt) THEN Fail(st, "DuplicateNodeId")
  ELSE IF ~IsObjectDefinition(st.nodes[qt].AST) THEN Fail(st, "NotSelectable")
  ELSE
    LET selectedField == SelectField(FieldsOf(st.nodes[qt].AST), data.FieldName)
    IN IF selectedField = NoField THEN Fail(st, "UnknownField")
    ELSE
      LET selectedType == Unwrap(selectedField.type)
          isNamed == selectedType.wrap = <<>>
          isPrimitive == isNamed /\ IsPrimitive(selectedType.name)
          primitiveName == IF isPrimitive THEN selectedType.name ELSE ""
          selectedTypeDef == IF isPrimitive THEN "nil" ELSE LookupType(selectedType)
      IN IF ~isPrimitive /\ selectedTypeDef = "nil" THEN Fail(st, "UnresolvedType")
      ELSE
        LET got == AcquireArgs(st.refs, data.Args, NilArgs)
        IN IF ~got.ok THEN Fail([st EXCEPT !.refs = got.refs], "UnknownVariable")
        ELSE
          LET nnod == Len(st.nodes) + 1
              minted == [st EXCEPT
                           !.refs = got.refs,
                           !.nodes = Append([@ EXCEPT ![qt].Children = Append(@, nnod)],
                                            NewNode(data.Id, qt, data.FieldName, selectedTypeDef,
                                                    isPrimitive, primitiveName, got.argMap)),
                           !.map = MapPut(@, data.Id, nnod)]
              applied == AddChildren(minted, nnod, data.Children)
          IN IF applied.err # ""
             THEN Rollback(applied, qt, nnod, data.Id)
             ELSE Announce(applied, qt, nnod)

\* The loop over data.Children, stopping at the first error.
AddChildren(st, nnod, children) ==
  IF children = <<>> THEN [st EXCEPT !.err = ""]
  ELSE LET s == AddChild(st, nnod, Head(children))
       IN IF s.err # "" THEN s ELSE AddChildren(s, nnod, Tail(children))

\* ----------------------------------------------------------------- Dispose
\* The loop of Dispose ranges over the slice qt.Children as it was when the
\* loop began (n elements), while each child's Dispose calls removeChild on
\* qt, which shifts the same backing array left and nils its last element.
\* The i-th iteration therefore reads the i-th element of the current
\* Children, or nil when the list has become shorter than i; Dispose on a
\* nil node dereferences it in nextUpdate and panics.
\* The delete from the index, line 252.
Unindex(st, qt) ==
  [st EXCEPT !.map = MapDelete(@, st.nodes[qt].Id), !.unindexed = @ \cup {qt}]

\* The Delete update as it would be if published after the delete from the
\* index.
DeleteNoticeUnindexed(st, qt) == nextUpdate(Unindex(st, qt), qt, "Delete", NIL)

\* The Delete update on the node's own subscribers, line 244.
DeleteNotice(st, qt) == nextUpdate(st, qt, "Delete", NIL)

RECURSIVE Dispose(_, _), DisposeLoop(_, _, _, _)
Dispose(st, qt) ==
  IF qt = NIL THEN [st EXCEPT !.panic = TRUE]
  ELSE
    LET s1 == DeleteNotice(st, qt)
        s2 == DisposeLoop(s1, qt, 1, Len(s1.nodes[qt].Children))
    IN IF s2.panic THEN s2
       ELSE
         LET s3 == Unindex([s2 EXCEPT !.nodes[qt].Children = <<>>], qt)
             s4 == IF s3.nodes[qt].Parent # NIL
                   THEN removeChild(s3, s3.nodes[qt].Parent, qt)
                   ELSE s3
         IN [s4 EXCEPT !.refs = ReleaseAll(@, s4.nodes[qt].Arguments,
                                           DOMAIN s4.nodes[qt].Arguments),
                       !.nodes[qt].Arguments = NilArgs,
                       !.disposed = @ \cup {qt}]

DisposeLoop(st, qt, i, n) ==
  IF i > n THEN st
  ELSE LET cur == st.nodes[qt].Children
           child == IF i <= Len(cur) THEN cur[i] ELSE NIL
           s == Dispose(st, child)
       IN IF s.panic THEN s ELSE DisposeLoop(s, qt, i + 1, n)

\* ------------------------------------------------------------------ actions
AllHandles == 1..(MaxObj + 1)

\* The record of a writer step: the operation, its NodeId and the node found
\* for it, the outcome, the node minted for the top-level descriptor,
\* whether an earlier add-subtree operation of the same batch failed, and the
\* ids of the variables the batch carries.
Step(op, nodeId, target, err, nnod, failedBefore, variables) ==
  [op |-> op, nodeId |-> nodeId, target |-> target, err |-> err, nnod |-> nnod,
   failedBefore |-> failedBefore, variables |-> variables]

AddFailed(l) == l.op = "add" /\ l.err \notin {"", "skipped"}

\* The delete guard as it would be without the root checks.
MayDisposeAny(nodeId, nod) == TRUE

\* SUBTREE_DELETE disposes the node unless the id is 0 or the node is the root.
MayDispose(nodeId, nod) == nodeId # 0 /\ nod # RootObj

\* The error handling as it would be if ApplyTreeMutation returned on error.
AfterAddChildAbort(err) == IF err # "" THEN "idle" ELSE "ops"

\* An AddChild error is printed and the loop goes on to the next operation.
AfterAddChild(err) == "ops"

\* The threads: the single writer and the observers.
WriterThread == 0
Observers == 1..MaxObservers
Threads == {WriterThread} \cup Observers

\* An observer thread that is in no call, and the writer before its first
\* nextUpdate call.
NoCall == [qt |-> NIL, id |-> 0]
NoDelivery == [node |-> NIL, subs |-> {}, removedAtCall |-> {}]

\* NewQueryTree: the root, id 0, registered in its own RootNodeMap.
Init ==
  /\ nodes = << NewNode(0, NIL, "", "Query", FALSE, "", NilArgs) >>
  /\ RootNodeMap = [i \in {0} |-> RootObj]
  /\ store = {}
  /\ refs = [v \in VarIds |-> 0]
  /\ subscribers = [h \in AllHandles |-> {}]
  /\ subCtr = [h \in AllHandles |-> 0]
  /\ phase = "idle"
  /\ events = <<>>
  /\ last = Step("none", 0, NIL, "", NIL, FALSE, {})
  /\ disposed = {}
  /\ pub = 0
  /\ subscribersMtx = [h \in AllHandles |-> {}]
  /\ pc = [t \in Threads |-> "idle"]
  /\ loc = [t \in Observers |-> NoCall]
  /\ issued = [h \in AllHandles |-> <<>>]
  /\ removed = [h \in AllHandles |-> {}]
  /\ delivery = NoDelivery

\* The first loop as it would be if it came after the node operations.
BeginBatchNoPut(variables) ==
  /\ phase = "idle"
  /\ phase' = "ops"
  /\ events' = <<>>
  /\ last' = Step("begin", 0, NIL, "", NIL, FALSE, variables)
  /\ UNCHANGED <<nodes, RootNodeMap, store, refs, subscribers, subCtr, disposed>>
  /\ pub' = 0
  /\ UNCHANGED lockVars

\* ApplyTreeMutation, first loop: Put every variable of the batch.
BeginBatch(variables) ==
  /\ phase = "idle"
  /\ store' = Put(store, variables)
  /\ phase' = "ops"
  /\ events' = <<>>
  /\ last' = Step("begin", 0, NIL, "", NIL, FALSE, variables)
  /\ UNCHANGED <<nodes, RootNodeMap, refs, subscribers, subCtr, disposed>>
  /\ pub' = 0
  /\ UNCHANGED lockVars

\* The lookup as it would be if an unknown id fell back to the root.
LookupOrRoot(nodeId) ==
  IF nodeId \in DOMAIN RootNodeMap THEN RootNodeMap[nodeId] ELSE RootObj

\* nod, ok := qt.Root.RootNodeMap[aqn.NodeId]: the node registered under the
\* id, NIL when there is none.
Lookup(nodeId) ==
  IF nodeId \in DOMAIN RootNodeMap THEN RootNodeMap[nodeId] ELSE NIL

\* A node operation whose NodeId is not in the root's RootNodeMap: continue.
OpSkip(nodeId, kind) ==
  /\ phase = "ops"
  /\ Lookup(nodeId) = NIL
  /\ events' = <<>>
  /\ last' = Step(kind, nodeId, NIL, "skipped", NIL, last.failedBefore \/ AddFailed(last),
                  last.variables)
  /\ UNCHANGED <<nodes, RootNodeMap, store, refs, subscribers, subCtr, phase, disposed>>
  /\ pub' = 0
  /\ UNCHANGED lockVars

\* SUBTREE_ADD_CHILD on a known node: AddChild, its error only printed.
OpAddChild(nodeId, data) ==
  /\ phase = "ops"
  /\ Lookup(nodeId) # NIL
  /\ LET nod == Lookup(nodeId)
         st == AddChild(WState, nod, data)
     IN /\ nodes' = st.nodes
        /\ RootNodeMap' = st.map
        /\ refs' = st.refs
        /\ events' = st.events
        /\ last' = Step("add", nodeId, nod, st.err, st.nnod,
                        last.failedBefore \/ AddFailed(last), last.variables)
        /\ phase' = AfterAddChild(st.err)
  /\ pub' = 0
  /\ UNCHANGED <<store, subscribers, subCtr, disposed, lockVars>>

\* SUBTREE_DELETE on a known node: Dispose, unless the id is 0 or the node is
\* the root.  A panic inside Dispose unwinds ApplyTreeMutation.
OpDelete(nodeId) ==
  /\ phase = "ops"
  /\ Lookup(nodeId) # NIL
  /\ LET nod == Lookup(nodeId)
         st == IF MayDispose(nodeId, nod) THEN Dispose(WState, nod) ELSE WState
     IN /\ nodes' = st.nodes
        /\ RootNodeMap' = st.map
        /\ refs' = st.refs
        /\ events' = st.events
        /\ phase' = IF st.panic THEN "panic" ELSE phase
        /\ last' = Step("del", nodeId, nod,
                        IF st.panic THEN "panic"
                        ELSE IF MayDispose(nodeId, nod) THEN "" ELSE "refused",
                        NIL, last.failedBefore \/ AddFailed(last), last.variables)
        /\ disposed' = st.disposed
  /\ pub' = 0
  /\ UNCHANGED <<store, subscribers, subCtr, lockVars>>

\* ApplyTreeMutation, end: VariableStore.GarbageCollect drops the variables
\* nobody references.
EndBatch ==
  /\ phase = "ops"
  /\ store' = GarbageCollect(store, refs)
  /\ phase' = "idle"
  /\ events' = <<>>
  /\ last' = Step("gc", 0, NIL, "", NIL, FALSE, {})
  /\ UNCHANGED <<nodes, RootNodeMap, refs, subscribers, subCtr, disposed>>
  /\ pub' = 0
  /\ UNCHANGED lockVars

\* Dispose called once more, between two batches, by a holder of a node
\* whose Dispose has returned.
DisposeAgain(qt) ==
  /\ phase = "idle"
  /\ qt \in disposed
  /\ LET st == Dispose(WState, qt)
     IN /\ nodes' = st.nodes
        /\ RootNodeMap' = st.map
        /\ refs' = st.refs
        /\ events' = st.events
        /\ disposed' = st.disposed
        /\ phase' = IF st.panic THEN "panic" ELSE phase
        /\ last' = Step("dispose", nodes[qt].Id, qt, IF st.panic THEN "panic" ELSE "",
                        NIL, FALSE, {})
  /\ pub' = 0
  /\ UNCHANGED <<store, subscribers, subCtr, lockVars>>

IssuedSubs == LET RECURSIVE Sum(_)
                  Sum(h) == IF h = 0 THEN 0 ELSE subCtr[h] + Sum(h - 1)
              IN Sum(MaxObj + 1)

\* SubscribeChanges, called by an observer on a node it holds.
SubscribeChanges(qt) ==
  /\ phase # "panic"
  /\ qt \in Handles
  /\ IssuedSubs < MaxSubs
  /\ subscribers' = [subscribers EXCEPT ![qt] = @ \cup {subCtr[qt]}]
  /\ subCtr' = [subCtr EXCEPT ![qt] = @ + 1]
  /\ UNCHANGED <<nodes, RootNodeMap, store, refs, phase, events, last, disposed, pub>>
  /\ UNCHANGED <<subscribersMtx, pc, loc, issued, removed, delivery>>

\* removeSubscription, called when the observer releases its handle.
removeSubscription(qt, id) ==
  /\ phase # "panic"
  /\ qt \in Handles
  /\ id \in subscribers[qt]
  /\ subscribers' = [subscribers EXCEPT ![qt] = @ \ {id}]
  /\ UNCHANGED <<nodes, RootNodeMap, store, refs, subCtr, phase, events, last, disposed, pub>>
  /\ UNCHANGED <<subscribersMtx, pc, loc, issued, removed, delivery>>

\* ------------------------------------------------------- threads and locks
\* The calls on the registry of a node, step by step.  subscribersMtx holds,
\* per node, the threads that have passed Lock and not yet Unlock.

\* Lock as it would be if it did not wait for the holder.
LockNoWait(qt, t) ==
  subscribersMtx' = [subscribersMtx EXCEPT ![qt] = @ \cup {t}]

\* qt.subscribersMtx.Lock(): the caller waits until no thread is inside.
Lock(qt, t) ==
  /\ subscribersMtx[qt] = {}
  /\ subscribersMtx' = [subscribersMtx EXCEPT ![qt] = @ \cup {t}]

\* Unlock as it would be if the call returned without it.
UnlockMissing(qt, t) == UNCHANGED subscribersMtx

\* qt.subscribersMtx.Unlock()
Unlock(qt, t) ==
  subscribersMtx' = [subscribersMtx EXCEPT ![qt] = @ \ {t}]

Range(q) == { q[i] : i \in DOMAIN q }

\* The SubscribeChanges calls made so far, returned or in progress.
Calls ==
  LET RECURSIVE Sum(_)
      Sum(h) == IF h = 0 THEN 0 ELSE Len(issued[h]) + Sum(h - 1)
  IN Sum(MaxObj + 1)
       + Cardinality({t \in Observers : pc[t] \in {"sub_lock", "sub_id", "sub_put"}})

\* An observer thread calls SubscribeChanges on a node it holds.
SubCall(t, qt) ==
  /\ phase # "panic"
  /\ pc[t] = "idle"
  /\ qt \in Handles
  /\ Calls < MaxIssue
  /\ pc' = [pc EXCEPT ![t] = "sub_lock"]
  /\ loc' = [loc EXCEPT ![t] = [qt |-> qt, id |-> 0]]
  /\ UNCHANGED <<nodes, RootNodeMap, store, refs, subscribers, subCtr, phase, events, last,
                 disposed, pub, subscribersMtx, issued, removed, delivery>>

\* SubscribeChanges, line 221: Lock.
SubLock(t) ==
  /\ pc[t] = "sub_lock"
  /\ Lock(loc[t].qt, t)
  /\ pc' = [pc EXCEPT ![t] = "sub_id"]
  /\ UNCHANGED <<nodes, RootNodeMap, store, refs, subscribers, subCtr, phase, events, last,
                 disposed, pub, loc, issued, removed, delivery>>

\* SubscribeChanges, lines 224-227: the new subscription takes qt.subCtr as
\* its id.
SubId(t) ==
  /\ pc[t] = "sub_id"
  /\ loc' = [loc EXCEPT ![t].id = subCtr[loc[t].qt]]
  /\ pc' = [pc EXCEPT ![t] = "sub_put"]
  /\ UNCHANGED <<nodes, RootNodeMap, store, refs, subscribers, subCtr, phase, events, last,
                 disposed, pub, subscribersMtx, issued, removed, delivery>>

\* SubscribeChanges, lines 228-230: the counter is incremented, the
\* subscription registered, the lock released (deferred) and the
\* subscription returned.
SubFinish(t) ==
  /\ pc[t] = "sub_put"
  /\ subCtr' = [subCtr EXCEPT ![loc[t].qt] = @ + 1]
  /\ subscribers' = [subscribers EXCEPT ![loc[t].qt] = @ \cup {loc[t].id}]
  /\ Unlock(loc[t].qt, t)
  /\ issued' = [issued EXCEPT ![loc[t].qt] = Append(@, loc[t].id)]
  /\ pc' = [pc EXCEPT ![t] = "idle"]
  /\ loc' = [loc EXCEPT ![t] = NoCall]
  /\ UNCHANGED <<nodes, RootNodeMap, store, refs, phase, events, last,
                 disposed, pub, removed, delivery>>

\* An observer thread releases a subscription that was returned to it:
\* removeSubscription is called with its id, once.
UnsubCall(t, qt, id) ==
  /\ phase # "panic"
  /\ pc[t] = "idle"
  /\ qt \in Handles
  /\ id \in Range(issued[qt]) \ removed[qt]
  /\ \A u \in Observers :
       pc[u] \in {"unsub_lock", "unsub_del"} => loc[u] # [qt |-> qt, id |-> id]
  /\ pc' = [pc EXCEPT ![t] = "unsub_lock"]
  /\ loc' = [loc EXCEPT ![t] = [qt |-> qt, id |-> id]]
  /\ UNCHANGED <<nodes, RootNodeMap, store, refs, subscribers, subCtr, phase, events, last,
                 disposed, pub, subscribersMtx, issued, removed, delivery>>

\* removeSubscription, line 215: Lock.
UnsubLock(t) ==
  /\ pc[t] = "unsub_lock"
  /\ Lock(loc[t].qt, t)
  /\ pc' = [pc EXCEPT ![t] = "unsub_del"]
  /\ UNCHANGED <<nodes, RootNodeMap, store, refs, subscribers, subCtr, phase, events, last,
                 disposed, pub, loc, issued, removed, delivery>>

\* removeSubscription, lines 216-217: delete, Unlock and return.
UnsubFinish(t) ==
  /\ pc[t] = "unsub_del"
  /\ subscribers' = [subscribers EXCEPT ![loc[t].qt] = @ \ {loc[t].id}]
  /\ Unlock(loc[t].qt, t)
  /\ removed' = [removed EXCEPT ![loc[t].qt] = @ \cup {loc[t].id}]
  /\ pc' = [pc EXCEPT ![t] = "idle"]
  /\ loc' = [loc EXCEPT ![t] = NoCall]
  /\ UNCHANGED <<nodes, RootNodeMap, store, refs, subCtr, phase, events, last,
                 disposed, pub, issued, delivery>>

\* The writer calls nextUpdate for the next update of its operation (the
\* updates of the operation are in events, in the order of the calls).
PubCall ==
  /\ pc[WriterThread] = "idle"
  /\ pub < Len(events)
  /\ delivery' = [node |-> events[pub + 1].node, subs |-> {},
                  removedAtCall |-> removed[events[pub + 1].node]]
  /\ pc' = [pc EXCEPT ![WriterThread] = "pub_lock"]
  /\ UNCHANGED <<nodes, RootNodeMap, store, refs, subscribers, subCtr, phase, events, last,
                 disposed, pub, subscribersMtx, loc, issued, removed>>

\* nextUpdate, line 234: Lock.
PubLock ==
  /\ pc[WriterThread] = "pub_lock"
  /\ Lock(delivery.node, WriterThread)
  /\ pc' = [pc EXCEPT ![WriterThread] = "pub_send"]
  /\ UNCHANGED <<nodes, RootNodeMap, store, refs, subscribers, subCtr, phase, events, last,
                 disposed, pub, loc, issued, removed, delivery>>

\* nextUpdate, lines 235-239: the update is handed to every registered
\* subscriber, the lock released (deferred) and the call returns.
PubSend ==
  /\ pc[WriterThread] = "pub_send"
  /\ delivery' = [delivery EXCEPT !.subs = subscribers[delivery.node]]
  /\ Unlock(delivery.node, WriterThread)
  /\ pub' = pub + 1
  /\ pc' = [pc EXCEPT ![WriterThread] = "idle"]
  /\ UNCHANGED <<nodes, RootNodeMap, store, refs, subscribers, subCtr, phase, events, last,
                 disposed, loc, issued, removed>>

\* The writer applying batches whose descriptors bind arguments from argLists
\* and whose variables are taken from varIds.
Writer(varIds, argLists) ==
  \/ \E variables \in SUBSET varIds : BeginBatch(variables)
  \/ \E nodeId \in NodeIds, kind \in {"add", "del"} : OpSkip(nodeId, kind)
  \/ \E nodeId \in NodeIds :
       \E data \in DescsN(MaxObj + 1 - Len(nodes), argLists) : OpAddChild(nodeId, data)
  \/ \E nodeId \in NodeIds : OpDelete(nodeId)
  \/ EndBatch

\* The tree under a single writer, with the Variable Store and argument
\* bindings, and no observer.
Next == Writer(VarIds, ArgLists)

Spec == Init /\ [][Next]_vars

\* The tree under a single writer and concurrent observers; the batches
\* carry no variable and the descriptors bind no argument.
NextObs ==
  \/ Writer({}, {<<>>})
  \/ \E qt \in AllHandles : SubscribeChanges(qt)
  \/ \E qt \in AllHandles : \E id \in 0..(MaxSubs - 1) : removeSubscription(qt, id)

SpecObs == Init /\ [][NextObs]_vars

\* The writer applying batches whose add-subtree operations carry a single
\* descriptor without nested children, with arguments from argLists, while
\* fewer than maxObj nodes have been minted and every reference count is
\* below maxRefs.
FlatWriter(varIds, argLists, maxObj, maxRefs) ==
  \/ \E variables \in SUBSET varIds : BeginBatch(variables)
  \/ \E nodeId \in NodeIds, kind \in {"add", "del"} : OpSkip(nodeId, kind)
  \/ \E nodeId \in NodeIds :
       \E data \in DescsN(1, argLists) :
         /\ Len(nodes) <= maxObj
         /\ \A v \in VarIds : refs[v] < maxRefs
         /\ OpAddChild(nodeId, data)
  \/ \E nodeId \in NodeIds : OpDelete(nodeId)
  \/ EndBatch

\* The tree of at most MaxFlat nodes under the root, under a single writer
\* whose descriptors carry argument lists of any length up to MaxArgs.
NextArgs == FlatWriter(VarIds, ArgSeqs, MaxFlat, MaxRefs)

SpecArgs == Init /\ [][NextArgs]_vars

\* The tree of at most MaxFlat nodes under the root, under a single writer
\* and a holder of disposed nodes that calls Dispose on them again.
NextDispose ==
  \/ FlatWriter(VarIds, ArgLists, MaxFlat, MaxRefs)
  \/ \E qt \in AllHandles : DisposeAgain(qt)

SpecDispose == Init /\ [][NextDispose]_vars

\* The tree of at most MaxLockObj nodes under the root, with the calls on the
\* registries taken step by step: the writer makes the nextUpdate calls of an
\* operation one after the other and goes on to the next operation when the
\* last has returned, while the observer threads subscribe and unsubscribe.
NextLocks ==
  \/ /\ pc[WriterThread] = "idle"
     /\ pub = Len(events)
     /\ FlatWriter({}, {<<>>}, MaxLockObj, MaxRefs)
  \/ PubCall
  \/ PubLock
  \/ PubSend
  \/ \E t \in Observers : \E qt \in AllHandles : SubCall(t, qt)
  \/ \E t \in Observers : SubLock(t)
  \/ \E t \in Observers : SubId(t)
  \/ \E t \in Observers : SubFinish(t)
  \/ \E t \in Observers : \E qt \in AllHandles : \E id \in 0..(MaxIssue - 1) : UnsubCall(t, qt, id)
  \/ \E t \in Observers : UnsubLock(t)
  \/ \E t \in Observers : UnsubFinish(t)

SpecLocks == Init /\ [][NextLocks]_vars

\* ================================================================== claims
\* The nodes of the subtree of h (h and everything under it through Children).
RECURSIVE Subtree(_, _)
Subtree(ns, h) ==
  {h} \cup UNION { Subtree(ns, ns[h].Children[i]) : i \in 1..Len(ns[h].Children) }

\* The live nodes: those reachable from the root through Children.
Live == Subtree(nodes, RootObj)

\* A step of the writer (the observers' steps change the registries only).
WriterStep == UNCHANGED <<subscribers, subCtr, lockVars>>

\* The references to variable v held in the Arguments of the nodes of S.
Held(ns, S, v) ==
  Cardinality({ <<h, a>> \in S \X ArgNames :
                  a \in DOMAIN ns[h].Arguments /\ ns[h].Arguments[a] = v })

\* An AddChild call that minted its node and then failed on a nested child.
NestedFailure(l) == l.op = "add" /\ l.nnod # NIL /\ l.err # ""

\* C1: in every state no two live nodes have the same id, and the root index
\* maps the id of every live node to that node.
C1_IdUniqueness ==
  /\ \A g, h \in Live : g # h => nodes[g].Id # nodes[h].Id
  /\ \A h \in Live : /\ nodes[h].Id \in DOMAIN RootNodeMap
                     /\ RootNodeMap[nodes[h].Id] = h

\* The nodes minted by the step carry ids that were not in the root index and
\* that differ from each other: no duplicate id is involved in the call.
FreshIds ==
  LET new == (Len(nodes) + 1)..Len(nodes')
  IN /\ \A h \in new : nodes'[h].Id \notin DOMAIN RootNodeMap
     /\ \A g, h \in new : g # h => nodes'[g].Id # nodes'[h].Id

\* C2: an AddChild call that fails on a nested child descriptor leaves the
\* root index and the Children list of the target parent as they were before
\* the call.  Stated for the calls in which every node minted has a new id,
\* so that a violation owes nothing to the acceptance of duplicate ids (C10).
C2_RollbackStructure ==
  [][ (WriterStep /\ NestedFailure(last') /\ FreshIds)
        => /\ RootNodeMap' = RootNodeMap
           /\ nodes'[last'.target].Children = nodes[last'.target].Children ]_vars

\* C3: an AddChild call that fails on a nested child descriptor leaves every
\* variable's outstanding reference count at its value before the call.
\* Stated, like C2, for the calls in which every node minted has a new id.
C3_RollbackResources ==
  [][ (WriterStep /\ NestedFailure(last') /\ FreshIds) => refs' = refs ]_vars

\* The Dispose call of a delete-subtree operation (the node was found and
\* was not refused).
Disposed(l) == l.op = "del" /\ l.err \in {"", "panic"}

\* C4: Dispose on a non-root node removes the id of every node of its subtree
\* from the root index and releases every argument reference held in the
\* subtree.
C4_DisposalComplete ==
  [][ (WriterStep /\ Disposed(last'))
        => LET sub == Subtree(nodes, last'.target)
           IN /\ \A d \in sub : nodes[d].Id \notin DOMAIN RootNodeMap'
              /\ \A v \in VarIds : refs'[v] = refs[v] - Held(nodes, sub, v) ]_vars

\* C5: a delete-subtree operation whose target id is 0 never disposes the
\* root: the step changes no node, no index entry, publishes no event and
\* leaves every subscriber registry as it was.
C5_RootProtection ==
  [][ (WriterStep /\ last'.op = "del" /\ last'.nodeId = 0)
        => /\ nodes' = nodes
           /\ RootNodeMap' = RootNodeMap
           /\ refs' = refs
           /\ subscribers' = subscribers
           /\ events' = <<>>
           /\ phase' = "ops" ]_vars

\* C5's case: a delete of id 0 was refused on a root that has children and a
\* subscriber.
C5_Witness ==
  /\ last.op = "del" /\ last.nodeId = 0 /\ last.err = "refused"
  /\ last.target = RootObj
  /\ nodes[RootObj].Children # <<>>
  /\ subscribers[RootObj] # {}

\* C6: a primitive node never has children, and an AddChild call on a
\* primitive node fails with NotSelectable whatever the descriptor.
C6_PrimitiveLeaf ==
  /\ \A h \in Handles : nodes[h].IsPrimitive => nodes[h].Children = <<>>
  /\ (last.op = "add" /\ last.target # NIL /\ nodes[last.target].IsPrimitive)
       => last.err = "NotSelectable"

\* C6's case: an AddChild call on a primitive node has been refused.
C6_Witness ==
  /\ last.op = "add" /\ last.target # NIL
  /\ nodes[last.target].IsPrimitive
  /\ last.err = "NotSelectable"

\* The AddChild updates of the latest step handed to subscriber s of node n.
AddEventsFor(evs, n, s) ==
  { i \in DOMAIN evs : evs[i].node = n /\ evs[i].op = "AddChild" /\ s \in evs[i].subs }

\* The AddChild updates of the latest step published on node n.
AddEventsOn(evs, n) ==
  { i \in DOMAIN evs : evs[i].node = n /\ evs[i].op = "AddChild" }

\* C7: for an AddChild call on a found parent, every observer subscribed to
\* the parent is handed exactly one AddChild update, whose child is the new
\* top-level node, when the call succeeds, and none when the call fails.
C7_AddEventIffSuccess ==
  [][ (WriterStep /\ last'.op = "add" /\ last'.err # "skipped")
        => LET p == last'.target
           IN /\ Cardinality(AddEventsOn(events', p)) = IF last'.err = "" THEN 1 ELSE 0
              /\ \A i \in AddEventsOn(events', p) :
                   /\ events'[i].child = last'.nnod
                   /\ events'[i].subs = subscribers[p]
              /\ \A s \in subscribers[p] :
                   Cardinality(AddEventsFor(events', p, s)) = IF last'.err = "" THEN 1 ELSE 0 ]_vars

\* C7's case: a call with a nested descriptor succeeded on a parent that has
\* a subscriber, and the subscriber was handed the update for the new node.
C7_Witness ==
  /\ last.op = "add" /\ last.err = "" /\ last.nnod # NIL
  /\ nodes[last.nnod].Children # <<>>
  /\ \E i \in DOMAIN events :
       /\ events[i].node = last.target /\ events[i].op = "AddChild"
       /\ events[i].child = last.nnod /\ events[i].subs # {}

\* C8: every update published by a step is handed to the subscribers of the
\* node it is published on and to nobody else, and is local to that node: a
\* Delete on a node of the subtree being disposed, or an AddChild or DelChild
\* whose child has that node as its Parent; an add publishes nothing on nodes
\* other than its target and the nodes it mints, a delete nothing on nodes
\* other than the disposed subtree and the parents of its nodes.
C8_NotificationLocality ==
  [][ WriterStep
        => \A i \in DOMAIN events' :
             LET e == events'[i]
             IN /\ e.subs = subscribers[e.node]
                /\ \/ /\ e.op = "Delete"
                      /\ last'.op = "del"
                      /\ e.node \in Subtree(nodes, last'.target)
                   \/ /\ e.op = "DelChild"
                      /\ nodes'[e.child].Parent = e.node
                      /\ \/ last'.op = "del" /\ e.child \in Subtree(nodes, last'.target)
                         \/ last'.op = "add" /\ e.child > Len(nodes)
                   \/ /\ e.op = "AddChild"
                      /\ last'.op = "add"
                      /\ nodes'[e.child].Parent = e.node
                      /\ e.child > Len(nodes) ]_vars

\* C8's case: a node with a subscriber whose child received a new child of
\* its own (a grandchild of the subscribed node), with no update published on
\* the subscribed node.
C8_Witness ==
  /\ last.op = "add" /\ last.err = "" /\ last.target # RootObj
  /\ subscribers[nodes[last.target].Parent] # {}
  /\ events # <<>>
  /\ \A i \in DOMAIN events : events[i].node # nodes[last.target].Parent

\* C9: an add-subtree operation that fails leaves the writer in the
\* operation loop of the batch, and the loop is left only through
\* GarbageCollect.
C9_BatchContinues ==
  [][ /\ (WriterStep /\ AddFailed(last')) => phase' = "ops"
      /\ (phase = "ops" /\ phase' = "idle")
           => (last'.op = "gc" /\ store' = GarbageCollect(store, refs)) ]_vars

\* C9's case: an add-subtree operation took effect after an earlier add of
\* the same batch had failed.
C9_Witness ==
  /\ last.op = "add" /\ last.err = "" /\ last.failedBefore
  /\ last.nnod \in Live
  /\ phase = "ops"

\* C10: an AddChild call, on any found parent, whose proposed id is a key of
\* the root index fails: no call mints a node under an id that the root index
\* already held.
C10_DuplicateRejected ==
  [][ (WriterStep /\ last'.op = "add" /\ last'.nnod # NIL)
        => nodes'[last'.nnod].Id \notin DOMAIN RootNodeMap ]_vars

\* C11: an AddChild call that fails with UnknownVariable at one of its own
\* argument bindings has released every reference it obtained for the earlier
\* bindings (every reference count is back at its value before the call) and
\* has created no node, whatever the list of bindings.
C11_NoPartialArgLeak ==
  [][ (WriterStep /\ last'.op = "add" /\ last'.err = "UnknownVariable" /\ last'.nnod = NIL)
        => /\ refs' = refs
           /\ nodes' = nodes
           /\ RootNodeMap' = RootNodeMap ]_vars

\* C12: a node operation, add-subtree or delete-subtree, whose target id is
\* not a key of the root index changes nothing: no node, no index entry, no
\* reference count, no store binding, and it publishes no update.
C12_SilentSkip ==
  [][ (WriterStep /\ last'.op \in {"add", "del"} /\ last'.nodeId \notin DOMAIN RootNodeMap)
        => /\ nodes' = nodes
           /\ RootNodeMap' = RootNodeMap
           /\ refs' = refs
           /\ store' = store
           /\ events' = <<>>
           /\ phase' = phase ]_vars

\* C12's case: an add-subtree operation on an unknown id was skipped in a
\* tree that has a live node holding an argument reference.
C12_Witness ==
  /\ last.op = "add" /\ last.err = "skipped"
  /\ last.nodeId \notin DOMAIN RootNodeMap
  /\ \E h \in Live : DOMAIN nodes[h].Arguments # {}
  /\ \E v \in VarIds : refs[v] > 0

\* C13: within one ApplyTreeMutation call every variable of the batch is put
\* into the store by the step that opens the batch, before any node
\* operation; the node operations run between that step and GarbageCollect,
\* find every variable of the batch in the store and leave the store as it
\* is; GarbageCollect runs once, as the step that closes the batch.
C13_PhaseOrdering ==
  [][ WriterStep
        => /\ (last'.op = "begin")
                => /\ phase = "idle" /\ phase' = "ops"
                   /\ store' = store \cup last'.variables
           /\ (last'.op \in {"add", "del"})
                => /\ phase = "ops"
                   /\ last.op \in {"begin", "add", "del"}
                   /\ last'.variables = last.variables
                   /\ last'.variables \subseteq store
                   /\ store' = store
           /\ (last'.op = "gc")
                => /\ phase = "ops" /\ phase' = "idle"
                   /\ last.op \in {"begin", "add", "del"}
                   /\ store' = GarbageCollect(store, refs)
           /\ (phase = "idle") => last'.op = "begin" ]_vars

\* C13's case: an add-subtree operation bound an argument of the node it
\* minted to a variable that the same batch carried and that no node
\* referenced before, after an earlier operation of the batch.
C13_Witness ==
  /\ last.op = "add" /\ last.err = "" /\ last.nnod # NIL
  /\ \E a \in DOMAIN nodes[last.nnod].Arguments :
       /\ nodes[last.nnod].Arguments[a] \in last.variables
       /\ refs[nodes[last.nnod].Arguments[a]] = 1
  /\ Len(nodes) > 2

\* C14: in the Dispose call of a delete-subtree operation the first update
\* is the Delete on the disposed node; the Delete on any node of the subtree
\* is published before that node is taken out of the root index, before any
\* update on a node below it and before the DelChild naming it; and the
\* DelChild naming a node is published after every update on that node and
\* on the nodes below it (each child's Delete and DelChild included).
C14_DisposalOrder ==
  [][ (WriterStep /\ Disposed(last'))
        => LET evs == events'
               Below(d) == Subtree(nodes, d)
           IN /\ evs # <<>>
              /\ evs[1].op = "Delete" /\ evs[1].node = last'.target
              /\ \A i \in DOMAIN evs :
                   evs[i].op = "Delete"
                     => /\ evs[i].node \notin evs[i].unindexed
                        /\ \A j \in DOMAIN evs :
                             (j # i /\ (\/ evs[j].node \in Below(evs[i].node)
                                        \/ evs[j].op = "DelChild" /\ evs[j].child = evs[i].node))
                               => i < j
              /\ \A k \in DOMAIN evs :
                   evs[k].op = "DelChild"
                     => /\ \E i \in 1..(k - 1) :
                             evs[i].op = "Delete" /\ evs[i].node = evs[k].child
                        /\ \A j \in DOMAIN evs :
                             evs[j].node \in Below(evs[k].child) => j < k ]_vars

\* C14's case: a node with a child and a subscriber was disposed: its
\* subscriber was handed the Delete, then came the child's Delete, the
\* DelChild of the child and the DelChild on the parent.
C14_Witness ==
  /\ last.op = "del" /\ last.err = ""
  /\ Len(events) >= 4
  /\ events[1].op = "Delete" /\ events[1].node = last.target /\ events[1].subs # {}
  /\ events[2].op = "Delete" /\ events[2].node # last.target
  /\ events[Len(events)].op = "DelChild" /\ events[Len(events)].child = last.target

\* The named type a declared type wraps.
Underlying(t) == t.name

\* C15: whatever list and non-null wrappers the declared type of the selected
\* field carries, AddChild reaches the named type under them: the node it
\* mints is primitive, with that name, when the named type is a primitive,
\* and carries the definition of the named type otherwise; and the call does
\* not fail with UnresolvedType on a parent all of whose fields wrap a
\* primitive or a type the resolver knows.
C15_TypeUnwrapping ==
  [][ (WriterStep /\ last'.op = "add" /\ last'.target # NIL)
        => LET fields == FieldsOf(nodes[last'.target].AST)
           IN /\ (last'.nnod = NIL /\ last'.err = "UnresolvedType")
                   => \E i \in 1..Len(fields) :
                        /\ ~IsPrimitive(Underlying(fields[i].type))
                        /\ Underlying(fields[i].type) \notin DOMAIN ObjectDefs
              /\ (last'.nnod # NIL)
                   => LET n == nodes'[last'.nnod]
                          T == Underlying(SelectField(fields, n.FieldName).type)
                      IN /\ n.IsPrimitive = IsPrimitive(T)
                         /\ n.IsPrimitive => n.PrimitiveName = T
                         /\ ~n.IsPrimitive => n.AST = T ]_vars

\* C16: under every interleaving of the steps of SubscribeChanges,
\* removeSubscription and nextUpdate made by the threads, the ids a node has
\* returned are pairwise distinct; the registry of a node holds exactly the
\* ids returned and not yet removed by a call that has returned (no
\* registration and no removal is lost); and a nextUpdate call hands its
\* update to no subscription whose removal had returned when the call began,
\* and only to subscriptions the node has issued.
C16_SubscriptionSafety ==
  /\ \A h \in AllHandles :
       /\ \A i, j \in DOMAIN issued[h] : i # j => issued[h][i] # issued[h][j]
       /\ subscribers[h] = Range(issued[h]) \ removed[h]
  /\ delivery.subs \cap delivery.removedAtCall = {}
  /\ delivery.node # NIL => delivery.subs \subseteq Range(issued[delivery.node])

\* C16's case: a node has returned two subscriptions, the removal of one had
\* returned when the writer called nextUpdate on the node, and the update was
\* handed to the other one only.
C16_Witness ==
  /\ delivery.node # NIL
  /\ Len(issued[delivery.node]) = 2
  /\ delivery.removedAtCall # {}
  /\ delivery.subs # {}
  /\ pc[WriterThread] = "idle"

\* The registry locks thread t is inside.
LocksOf(t) == { h \in AllHandles : t \in subscribersMtx[h] }

\* Thread t has called Lock and not yet passed it, on the node WaitsOn(t).
AtLock(t) == pc[t] \in {"sub_lock", "unsub_lock", "pub_lock"}
WaitsOn(t) == IF t = WriterThread THEN delivery.node ELSE loc[t].qt

\* C17: no thread is ever inside the registry locks of two nodes; a thread
\* that calls Lock, or that is in no call, is inside none; and the lock a
\* thread waits for is held by a thread that is inside its critical section,
\* where it waits for nothing: no set of threads waits for each other.
C17_SingleLock ==
  \A t \in Threads :
    /\ Cardinality(LocksOf(t)) <= 1
    /\ pc[t] = "idle" => LocksOf(t) = {}
    /\ AtLock(t)
         => /\ LocksOf(t) = {}
            /\ \A u \in subscribersMtx[WaitsOn(t)] : ~AtLock(u) /\ pc[u] # "idle"

\* C17's case: in the Dispose of a node the writer waits for the lock of a
\* registry that one observer is inside, after its nextUpdate on another
\* node, while another observer is inside the lock of another registry.
C17_Witness ==
  /\ pc[WriterThread] = "pub_lock"
  /\ pub > 0
  /\ last.op = "del"
  /\ subscribersMtx[delivery.node] # {}
  /\ \E h \in AllHandles : h # delivery.node /\ subscribersMtx[h] # {}

\* C18: ApplyTreeMutation never aborts part-way: the writer is either
\* between two batches or in the operation loop of a batch, from which the
\* next operation and GarbageCollect can be reached; no operation ends in a
\* panic.
C18_RunToCompletion ==
  /\ phase \in {"idle", "ops"}
  /\ last.err # "panic"

\* C19: a Dispose call on a node whose Dispose has already returned leaves
\* the root index and the Children of every live node as they are and
\* releases no reference, whatever was applied in between.
C19_DisposeIdempotent ==
  [][ (WriterStep /\ last'.op = "dispose")
        => /\ RootNodeMap' = RootNodeMap
           /\ \A h \in Live : nodes'[h].Children = nodes[h].Children
           /\ refs' = refs ]_vars

\* C20: an observer is handed a DelChild for a child only after an AddChild
\* for the same child on the same node, and an AddChild call that fails
\* hands no update of any kind to the observers of its target.  Stated for
\* the children minted by the step: a child minted by an earlier step is in
\* Children only if its AddChild call succeeded, which announced it (C7).
C20_EventPairing ==
  [][ WriterStep
        => LET evs == events'
           IN /\ \A k \in DOMAIN evs :
                   (evs[k].op = "DelChild" /\ evs[k].child > Len(nodes) /\ evs[k].subs # {})
                     => \E j \in 1..(k - 1) :
                          /\ evs[j].op = "AddChild"
                          /\ evs[j].node = evs[k].node
                          /\ evs[j].child = evs[k].child
              /\ (AddFailed(last') /\ last'.target # NIL)
                   => \A k \in DOMAIN evs :
                        evs[k].node = last'.target => evs[k].subs = {} ]_vars

====
